---------------------------- MODULE Spec2Model ----------------------------
(***************************************************************************)
(* A model of the weather agent's date normalisation (date_utils.py) and   *)
(* forecast summarisation (core/weather_tools.py).                         *)
(*                                                                         *)
(* Python strings are sequences of one-character strings, so that lower(), *)
(* strip(), re.match, startswith, strptime and isoformat are computed      *)
(* character by character.  Calendar dates are proleptic Gregorian         *)
(* ordinals (date.toordinal) converted to and from (year, month, day) the  *)
(* way datetime does it.                                                   *)
(***************************************************************************)
EXTENDS Integers, Sequences, FiniteSets, TLC

VARIABLES
    utcnow,     \* the day datetime.utcnow().date() shows, as a date ordinal
    period,     \* the phrase handed to normalize_date / forecast_weather
    pc,         \* position in the call being modelled
    date,       \* outcome of normalize_date(period)      (weather_tools.py:214)
    printed,    \* outcome of the normalize_date in print (weather_tools.py:215)
    weathers,   \* list returned by get_forecast           (weather_tools.py:216)
    filtered,   \* list returned by filter_forecast_by_date (weather_tools.py:217)
    summary,    \* lines of the string returned by summarize_forecast
    weathers2,  \* a second list summarised for the same target date
    filtered2,
    summary2,
    ticks       \* midnights passed since the call began

vars == <<utcnow, period, pc, date, printed, weathers, filtered, summary,
          weathers2, filtered2, summary2, ticks>>

-----------------------------------------------------------------------------
(* Bounds of the model *)

FirstRefDay   == 738940   \* 2024-02-24, a Saturday; the window holds 29 Feb
SecondRefDay  == 739247   \* 2024-12-27; the window crosses the year's end
NumRefDays    == 7        \* reference days per window: every weekday occurs
MaxN          == 12       \* largest <integer> in "<integer> days time"
MaxRecs       == 3        \* longest list of hourly records summarised
MaxPairRecs   == 2        \* longest list in the two-list comparison
MaxTicks      == 1        \* midnights passing during one forecast_weather call

-----------------------------------------------------------------------------
(* Characters and str methods *)

Uppers == <<"A","B","C","D","E","F","G","H","I","J","K","L","M",
            "N","O","P","Q","R","S","T","U","V","W","X","Y","Z">>
Lowers == <<"a","b","c","d","e","f","g","h","i","j","k","l","m",
            "n","o","p","q","r","s","t","u","v","w","x","y","z">>
DigitChars == <<"0","1","2","3","4","5","6","7","8","9">>
Whitespace == {" ", "\t", "\n"}

IsDigit(c) == \E i \in 1..10 : DigitChars[i] = c
DigitVal(c) == (CHOOSE i \in 1..10 : DigitChars[i] = c) - 1

LowerChar(c) ==
    IF \E i \in 1..26 : Uppers[i] = c
    THEN Lowers[CHOOSE i \in 1..26 : Uppers[i] = c]
    ELSE c

UpperChar(c) ==
    IF \E i \in 1..26 : Lowers[i] = c
    THEN Uppers[CHOOSE i \in 1..26 : Lowers[i] = c]
    ELSE c

\* str.lower()
Lower(s) == [i \in 1..Len(s) |-> LowerChar(s[i])]

\* str.upper(), used only to build inputs
Upper(s) == [i \in 1..Len(s) |-> UpperChar(s[i])]

\* str.strip(): drop leading and trailing whitespace
Strip(s) ==
    LET keep == {i \in 1..Len(s) : s[i] \notin Whitespace}
    IN  IF keep = {} THEN <<>>
        ELSE LET lo == CHOOSE i \in keep : \A j \in keep : i <= j
                 hi == CHOOSE i \in keep : \A j \in keep : i >= j
             IN  SubSeq(s, lo, hi)

\* str.startswith(prefix)
StartsWith(s, prefix) ==
    /\ Len(prefix) <= Len(s)
    /\ SubSeq(s, 1, Len(prefix)) = prefix

\* the literal lit occurs in s at position i
LitAt(s, i, lit) ==
    /\ i + Len(lit) - 1 <= Len(s)
    /\ SubSeq(s, i, i + Len(lit) - 1) = lit

\* int() of a string of decimal digits
RECURSIVE IntOfDigits(_)
IntOfDigits(s) ==
    IF Len(s) = 0 THEN 0
    ELSE 10 * IntOfDigits(SubSeq(s, 1, Len(s) - 1)) + DigitVal(s[Len(s)])

\* str() of a natural number
RECURSIVE StrOfNat(_)
StrOfNat(n) ==
    IF n < 10 THEN <<DigitChars[n + 1]>>
    ELSE StrOfNat(n \div 10) \o <<DigitChars[(n % 10) + 1]>>

\* "%0<width>d" of a natural number
RECURSIVE ZeroPad(_, _)
ZeroPad(s, width) == IF Len(s) >= width THEN s ELSE ZeroPad(<<"0">> \o s, width)

-----------------------------------------------------------------------------
(* datetime.date: ordinals, (year, month, day), isoformat, strptime *)

IsLeap(y) == y % 4 = 0 /\ (y % 100 # 0 \/ y % 400 = 0)

DaysInMonth(y, m) ==
    IF m = 2 THEN (IF IsLeap(y) THEN 29 ELSE 28)
    ELSE IF m \in {4, 6, 9, 11} THEN 30 ELSE 31

DaysBeforeYear(y) ==
    (y - 1) * 365 + (y - 1) \div 4 - (y - 1) \div 100 + (y - 1) \div 400

RECURSIVE DaysBeforeMonth(_, _)
DaysBeforeMonth(y, m) ==
    IF m = 1 THEN 0 ELSE DaysBeforeMonth(y, m - 1) + DaysInMonth(y, m - 1)

\* date(y, m, d).toordinal()
Ymd2Ord(y, m, d) == DaysBeforeYear(y) + DaysBeforeMonth(y, m) + d

\* date.fromordinal(n) as [year, month, day]
Ord2Ymd(n) ==
    LET n0   == n - 1
        n400 == n0 \div 146097
        r400 == n0 % 146097
        n100 == r400 \div 36524
        r100 == r400 % 36524
        n4   == r100 \div 1461
        r4   == r100 % 1461
        n1   == r4 \div 365
        r1   == r4 % 365
        y    == n400 * 400 + 1 + n100 * 100 + n4 * 4 + n1
    IN  IF n1 = 4 \/ n100 = 4
        THEN [year |-> y - 1, month |-> 12, day |-> 31]
        ELSE LET m == CHOOSE k \in 1..12 :
                          /\ DaysBeforeMonth(y, k) <= r1
                          /\ r1 < DaysBeforeMonth(y, k) + DaysInMonth(y, k)
             IN  [year |-> y, month |-> m, day |-> r1 - DaysBeforeMonth(y, m) + 1]

\* date.weekday(): Monday is 0
Weekday(n) == (n + 6) % 7

\* date.isoformat() of the date with ordinal n: "YYYY-MM-DD"
IsoFormat(n) ==
    LET d == Ord2Ymd(n)
    IN  ZeroPad(StrOfNat(d.year), 4) \o <<"-">> \o ZeroPad(StrOfNat(d.month), 2)
            \o <<"-">> \o ZeroPad(StrOfNat(d.day), 2)

\* the directive %m of strptime: 1[0-2] | 0[1-9] | [1-9]
IsMonthField(s) ==
    \/ Len(s) = 2 /\ s[1] = "1" /\ s[2] \in {"0", "1", "2"}
    \/ Len(s) = 2 /\ s[1] = "0" /\ IsDigit(s[2]) /\ s[2] # "0"
    \/ Len(s) = 1 /\ IsDigit(s[1]) /\ s[1] # "0"

\* the directive %d of strptime: 3[01] | [12]\d | 0[1-9] | [1-9] | " "[1-9]
IsDayField(s) ==
    \/ Len(s) = 2 /\ s[1] = "3" /\ s[2] \in {"0", "1"}
    \/ Len(s) = 2 /\ s[1] \in {"1", "2"} /\ IsDigit(s[2])
    \/ Len(s) = 2 /\ s[1] \in {"0", " "} /\ IsDigit(s[2]) /\ s[2] # "0"
    \/ Len(s) = 1 /\ IsDigit(s[1]) /\ s[1] # "0"

\* datetime.strptime(text, '%Y-%m-%d').date(): the ordinal of the date, or 0
\* where strptime raises ValueError (no match, text left over, no such day)
Strptime(text) ==
    LET dashes == {i \in 6..Len(text) : text[i] = "-"}
    IN  IF /\ Len(text) >= 8
           /\ \A i \in 1..4 : IsDigit(text[i])
           /\ text[5] = "-"
           /\ dashes # {}
        THEN LET p  == CHOOSE i \in dashes : \A j \in dashes : i <= j
                 ms == SubSeq(text, 6, p - 1)
                 ds == SubSeq(text, p + 1, Len(text))
                 y  == IntOfDigits(SubSeq(text, 1, 4))
             IN  IF IsMonthField(ms) /\ IsDayField(ds) /\ y >= 1
                 THEN LET m == IntOfDigits(ms)
                          d == IntOfDigits(Strip(ds))
                      IN  IF d <= DaysInMonth(y, m) THEN Ymd2Ord(y, m, d) ELSE 0
                 ELSE 0
        ELSE 0

-----------------------------------------------------------------------------
(* Words *)

TODAY == <<"t","o","d","a","y">>
TOMORROW == <<"t","o","m","o","r","r","o","w">>
NEXT_TOMORROW == <<"n","e","x","t"," ","t","o","m","o","r","r","o","w">>
DAY_AFTER_TOMORROW == <<"t","h","e"," ","d","a","y"," ","a","f","t","e","r"," ",
                        "t","o","m","o","r","r","o","w">>
DAY == <<"d","a","y">>
TIME == <<"t","i","m","e">>
MONDAY == <<"m","o","n","d","a","y">>
TUESDAY == <<"t","u","e","s","d","a","y">>
WEDNESDAY == <<"w","e","d","n","e","s","d","a","y">>
THURSDAY == <<"t","h","u","r","s","d","a","y">>
FRIDAY == <<"f","r","i","d","a","y">>
SATURDAY == <<"s","a","t","u","r","d","a","y">>
SUNDAY == <<"s","u","n","d","a","y">>

\* date_utils.py:28
weekdays == <<MONDAY, TUESDAY, WEDNESDAY, THURSDAY, FRIDAY, SATURDAY, SUNDAY>>

-----------------------------------------------------------------------------
(* normalize_date *)

\* what a call gives back: a returned string, or a raised ValueError whose
\* message is `message` followed by `value`
Return(s)        == [kind |-> "return", value |-> s, message |-> ""]
Raise(msg, arg)  == [kind |-> "raise", value |-> arg, message |-> msg]

HorizonError == Raise("Forecast is limited to 5 days ahead.", <<>>)
UnsupportedError(date_str) == Raise("Unsupported date format: ", date_str)

\* the last index of the longest run of digits of s that starts at i (i - 1: none)
DigitRunEnd(s, i) ==
    CHOOSE j \in (i - 1)..Len(s) :
        /\ \A k \in i..j : IsDigit(s[k])
        /\ j = Len(s) \/ ~IsDigit(s[j + 1])

\* the same for a run of whitespace
SpaceRunEnd(s, i) ==
    CHOOSE j \in (i - 1)..Len(s) :
        /\ \A k \in i..j : s[k] \in Whitespace
        /\ j = Len(s) \/ s[j + 1] \notin Whitespace

\* re.match(r'(\d+)\s+days?\s*time', text): anchored at the start of text only;
\* `last` is the index of the last character matched
ReMatch(text) ==
    LET d == DigitRunEnd(text, 1)
        w == SpaceRunEnd(text, d + 1)
        a == w + 1
        b == IF LitAt(text, a + 3, <<"s">>) THEN a + 4 ELSE a + 3
        c == SpaceRunEnd(text, b) + 1
    IN  IF d >= 1 /\ w >= d + 1 /\ LitAt(text, a, DAY) /\ LitAt(text, c, TIME)
        THEN [matched |-> TRUE, group1 |-> SubSeq(text, 1, d), last |-> c + 3]
        ELSE [matched |-> FALSE, group1 |-> <<>>, last |-> 0]

\* DaysTimeBranch with the horizon test off by one (days >= 5)
DaysTimeBranchEarly(group1, today) ==
    LET days == IntOfDigits(group1)
    IN  IF days >= 5 THEN HorizonError
        ELSE Return(IsoFormat(today + days))

\* DaysTimeBranch with the horizon test off by one the other way (days > 6)
DaysTimeBranchLate(group1, today) ==
    LET days == IntOfDigits(group1)
    IN  IF days > 6 THEN HorizonError
        ELSE Return(IsoFormat(today + days))

\* date_utils.py:23-26
DaysTimeBranch(group1, today) ==
    LET days == IntOfDigits(group1)
    IN  IF days > 5 THEN HorizonError
        ELSE Return(IsoFormat(today + days))

\* WeekdayBranch resolving to the next occurrence strictly after today
WeekdayBranchStrictlyAfter(text, today) ==
    LET today_idx  == Weekday(today)
        target_idx == (CHOOSE i \in 1..7 : weekdays[i] = text) - 1
        delta      == ((target_idx - today_idx - 1) % 7) + 1
    IN  IF delta > 5 THEN HorizonError
        ELSE Return(IsoFormat(today + delta))

\* date_utils.py:30-35
WeekdayBranch(text, today) ==
    LET today_idx  == Weekday(today)
        target_idx == (CHOOSE i \in 1..7 : weekdays[i] = text) - 1
        delta      == (target_idx - today_idx) % 7
    IN  IF delta > 5 THEN HorizonError
        ELSE Return(IsoFormat(today + delta))

\* date_utils.py:37-40
IsoBranch(text, date_str) ==
    IF Strptime(text) # 0 THEN Return(IsoFormat(Strptime(text)))
    ELSE UnsupportedError(date_str)

\* date_utils.py:14-40, after the first test
Resolve(date_str, today) ==
    LET text == Lower(Strip(date_str))
    IN  IF text = TOMORROW THEN Return(IsoFormat(today + 1))
        ELSE IF text \in {NEXT_TOMORROW, DAY_AFTER_TOMORROW}
             THEN Return(IsoFormat(today + 2))
        ELSE IF ReMatch(text).matched
             THEN DaysTimeBranch(ReMatch(text).group1, today)
        ELSE IF \E i \in 1..7 : weekdays[i] = text
             THEN WeekdayBranch(text, today)
        ELSE IsoBranch(text, date_str)

\* normalize_date(date_str) called while the clock shows the day `today`
normalize_date(date_str, today) ==
    IF date_str = <<>> \/ Lower(date_str) = TODAY
    THEN Return(IsoFormat(today))
    ELSE Resolve(date_str, today)

-----------------------------------------------------------------------------
(* Inputs of normalize_date *)

RefDays ==
    {FirstRefDay + i : i \in 0..(NumRefDays - 1)}
        \cup {SecondRefDay + i : i \in 0..(NumRefDays - 1)}

SP == <<" ">>

\* "<n> day(s) time" in the spellings the pattern admits
DaysTimeSpellings(n) ==
    {StrOfNat(n) \o SP \o DAY \o s \o w \o TIME :
        s \in {<<>>, <<"s">>}, w \in {<<>>, SP}}
      \cup {StrOfNat(n) \o <<" ", " ">> \o DAY \o <<"s", " ", "\t">> \o TIME,
            <<"0", "0">> \o StrOfNat(n) \o SP \o DAY \o <<"s", " ">> \o TIME}

DaysTimePhrases == UNION {DaysTimeSpellings(n) : n \in 0..MaxN}

\* a recognised phrase followed by more text
TrailingTextPhrases ==
    {StrOfNat(n) \o SP \o DAY \o <<"s", " ">> \o TIME \o t :
        n \in 0..MaxN, t \in {<<" ","p","l","e","a","s","e">>, <<"o","u","t">>}}
      \cup {TOMORROW \o <<" ","p","l","e","a","s","e">>,
            MONDAY \o <<" ","n","o","o","n">>}

\* the number words of the docstring of forecast_weather
NumberWords == <<<<"a">>, <<"t","w","o">>, <<"t","h","r","e","e">>,
                 <<"f","o","u","r">>, <<"f","i","v","e">>>>

NumberWordPhrase(k) ==
    NumberWords[k] \o SP \o DAY \o (IF k = 1 THEN <<>> ELSE <<"s">>) \o SP \o TIME

NumberWordPhrases == {NumberWordPhrase(k) : k \in 1..5}

OtherPhrases ==
    {<<"n","e","x","t"," ","m","o","n","t","h">>,
     <<"y","e","s","t","e","r","d","a","y">>,
     <<"-","1">> \o SP \o DAY \o <<"s", " ">> \o TIME,
     <<"3">> \o DAY \o <<"s", " ">> \o TIME,
     DAY \o <<"s", " ">> \o TIME,
     <<"t","u","e","s">>}

DatePhrases(today) ==
    {IsoFormat(today + k) : k \in {-1, 0, 3, 5, 6, 400}}
      \cup {<<"2","0","2","4","-","0","1","-","0","1">>,
            <<"2","0","2","4","-","3","-","1">>,
            <<"2","0","2","4","-","0","2","-","3","0">>,
            <<"2","0","2","4","-","1","3","-","0","1">>,
            <<"2","0","2","4","/","0","1","/","0","1">>,
            <<"2","0","2","4","-","0","1","-","0","1","T","0","9">>,
            <<"2","4","-","0","1","-","0","1">>}

BasePhrases(today) ==
    {<<>>, TODAY, TOMORROW, NEXT_TOMORROW, DAY_AFTER_TOMORROW}
      \cup {weekdays[i] : i \in 1..7}
      \cup DaysTimePhrases \cup TrailingTextPhrases \cup NumberWordPhrases
      \cup OtherPhrases \cup DatePhrases(today)

\* the spellings of a phrase that differ in letter case and outer whitespace
Spellings(p) ==
    {p, Upper(p), SP \o p, p \o SP, SP \o p \o SP, <<"\t">> \o Upper(p) \o <<"\n">>}

Phrases(today) == UNION {Spellings(p) : p \in BasePhrases(today)}

\* every spelling of "<n> day(s) time", by n, and of a weekday name, by index
DaysTimeSpelled ==
    [n \in 0..MaxN |-> UNION {Spellings(b) : b \in DaysTimeSpellings(n)}]
WeekdaySpelled == [i \in 1..7 |-> Spellings(weekdays[i])]

-----------------------------------------------------------------------------
(* One call of normalize_date *)

NoOutcome == [kind |-> "none", value |-> <<>>, message |-> ""]

InitNorm ==
    /\ utcnow \in RefDays
    /\ period \in Phrases(utcnow)
    /\ pc = "call"
    /\ date = NoOutcome
    /\ printed = NoOutcome
    /\ weathers = <<>> /\ filtered = <<>> /\ summary = <<>>
    /\ weathers2 = <<>> /\ filtered2 = <<>> /\ summary2 = <<>>
    /\ ticks = 0

NormalizeCall ==
    /\ pc = "call"
    /\ date' = normalize_date(period, utcnow)
    /\ pc' = "returned"
    /\ UNCHANGED <<utcnow, period, printed, weathers, filtered, summary,
                   weathers2, filtered2, summary2, ticks>>

NextNorm == NormalizeCall

SpecNorm == InitNorm /\ [][NextNorm]_vars

-----------------------------------------------------------------------------
(* Forecast records: transform_forecast_data and its helpers *)

DEGREES_C == <<"°","C">>
NONE == <<"N","o","n","e">>
UNKNOWN == <<"U","n","k","n","o","w","n">>

\* weather_tools.py:36-61
conditions == <<
    [code |-> 0, label |-> <<"U","n","k","n","o","w","n">>],
    [code |-> 1000, label |-> <<"C","l","e","a","r",","," ","S","u","n","n","y">>],
    [code |-> 1100, label |-> <<"M","o","s","t","l","y"," ","C","l","e","a","r">>],
    [code |-> 1101, label |-> <<"P","a","r","t","l","y"," ","C","l","o","u","d","y">>],
    [code |-> 1102, label |-> <<"M","o","s","t","l","y"," ","C","l","o","u","d","y">>],
    [code |-> 1001, label |-> <<"C","l","o","u","d","y">>],
    [code |-> 2000, label |-> <<"F","o","g">>],
    [code |-> 2100, label |-> <<"L","i","g","h","t"," ","F","o","g">>],
    [code |-> 4000, label |-> <<"D","r","i","z","z","l","e">>],
    [code |-> 4001, label |-> <<"R","a","i","n">>],
    [code |-> 4200, label |-> <<"L","i","g","h","t"," ","R","a","i","n">>],
    [code |-> 4201, label |-> <<"H","e","a","v","y"," ","R","a","i","n">>],
    [code |-> 5000, label |-> <<"S","n","o","w">>],
    [code |-> 5001, label |-> <<"F","l","u","r","r","i","e","s">>],
    [code |-> 5100, label |-> <<"L","i","g","h","t"," ","S","n","o","w">>],
    [code |-> 5101, label |-> <<"H","e","a","v","y"," ","S","n","o","w">>],
    [code |-> 6000, label |-> <<"F","r","e","e","z","i","n","g"," ","D","r","i","z","z","l","e">>],
    [code |-> 6001, label |-> <<"F","r","e","e","z","i","n","g"," ","R","a","i","n">>],
    [code |-> 6200, label |-> <<"L","i","g","h","t"," ","F","r","e","e","z","i","n","g"," ","R","a","i","n">>],
    [code |-> 6201, label |-> <<"H","e","a","v","y"," ","F","r","e","e","z","i","n","g"," ","R","a","i","n">>],
    [code |-> 7000, label |-> <<"I","c","e"," ","P","e","l","l","e","t","s">>],
    [code |-> 7101, label |-> <<"H","e","a","v","y"," ","I","c","e"," ","P","e","l","l","e","t","s">>],
    [code |-> 7102, label |-> <<"L","i","g","h","t"," ","I","c","e"," ","P","e","l","l","e","t","s">>],
    [code |-> 8000, label |-> <<"T","h","u","n","d","e","r","s","t","o","r","m">>]
>>

\* weather_tools.py:35-62
get_condition(code) ==
    IF \E i \in 1..Len(conditions) : conditions[i].code = code
    THEN conditions[CHOOSE i \in 1..Len(conditions) : conditions[i].code = code].label
    ELSE UNKNOWN

\* A value of the provider's JSON: a number (whole numbers are modelled),
\* null, or absent from the object
JsonNumber(n) == [json |-> "number", n |-> n]
JsonNull      == [json |-> "null", n |-> 0]
JsonAbsent    == [json |-> "absent", n |-> 0]

\* str() of an integer
StrOfInt(n) == IF n < 0 THEN <<"-">> \o StrOfNat(0 - n) ELSE StrOfNat(n)

\* f"{values.get(key, 0)}": an absent key reads as 0, null prints as None
FormatValue(v) ==
    IF v.json = "number" THEN StrOfInt(v.n)
    ELSE IF v.json = "null" THEN NONE
    ELSE StrOfInt(0)

\* weather_tools.py:85-96 (windSpeed and humidity are never read again)
transform_forecast_data(data) ==
    [time |-> data.time,
     temperature |-> FormatValue(data.temperature) \o DEGREES_C,
     condition |-> get_condition(IF data.weatherCode.json = "absent" THEN 0
                                 ELSE data.weatherCode.n),
     precipitationProbability |-> FormatValue(data.precipitationProbability)]

\* weather_tools.py:183
TransformAll(records) == [i \in 1..Len(records) |-> transform_forecast_data(records[i])]

-----------------------------------------------------------------------------
(* filter_forecast_by_date *)

RECURSIVE FilterSeq(_, _)
\* [f for f in forecasts if f['time'].startswith(prefix)]
FilterSeq(forecasts, prefix) ==
    IF forecasts = <<>> THEN <<>>
    ELSE LET rest == FilterSeq(Tail(forecasts), prefix)
         IN  IF StartsWith(Head(forecasts).time, prefix)
             THEN <<Head(forecasts)>> \o rest
             ELSE rest

\* filter_forecast_by_date comparing the year and month only
filter_forecast_by_month(forecasts, target_date) ==
    FilterSeq(forecasts, SubSeq(target_date, 1, 7))

\* weather_tools.py:98-99
filter_forecast_by_date(forecasts, target_date) == FilterSeq(forecasts, target_date)

-----------------------------------------------------------------------------
(* summarize_forecast *)

RECURSIVE Replace(_, _)
\* s.replace(old, ''): every occurrence of old is removed, left to right
Replace(s, old) ==
    IF Len(s) < Len(old) THEN s
    ELSE IF SubSeq(s, 1, Len(old)) = old
         THEN Replace(SubSeq(s, Len(old) + 1, Len(s)), old)
         ELSE <<Head(s)>> \o Replace(Tail(s), old)

\* float(s) for the strings FormatValue makes: an optional sign and decimal
\* digits; anything else (such as None) raises ValueError
ParseFloat(s) ==
    LET body == IF Len(s) > 0 /\ s[1] = "-" THEN Tail(s) ELSE s
    IN  IF Len(body) > 0 /\ \A i \in 1..Len(body) : IsDigit(body[i])
        THEN [ok |-> TRUE,
              val |-> IF body = s THEN IntOfDigits(body) ELSE 0 - IntOfDigits(body)]
        ELSE [ok |-> FALSE, val |-> 0]

\* sub in s
Contains(s, sub) == \E i \in 1..(Len(s) - Len(sub) + 1) : LitAt(s, i, sub)

RECURSIVE SumSeq(_)
SumSeq(s) == IF s = <<>> THEN 0 ELSE Head(s) + SumSeq(Tail(s))

MaxSeq(s) == CHOOSE x \in {s[i] : i \in 1..Len(s)} : \A i \in 1..Len(s) : x >= s[i]
MinSeq(s) == CHOOSE x \in {s[i] : i \in 1..Len(s)} : \A i \in 1..Len(s) : x <= s[i]

\* classify_temperature with the upper limits inclusive
classify_temperature_inclusive(num, den) ==
    IF num <= 0 THEN <<"F","r","e","e","z","i","n","g">>
    ELSE IF num <= 10 * den THEN <<"C","o","l","d">>
    ELSE IF num <= 20 * den THEN <<"C","o","o","l">>
    ELSE IF num <= 30 * den THEN <<"W","a","r","m">>
    ELSE <<"H","o","t">>

\* weather_tools.py:23-33 for temp = num / den, den > 0.  The temperatures are
\* whole numbers, so the float quotient compares with 0, 10, 20 and 30 as the
\* exact quotient does.
classify_temperature(num, den) ==
    IF num < 0 THEN <<"F","r","e","e","z","i","n","g">>
    ELSE IF 0 <= num /\ num < 10 * den THEN <<"C","o","l","d">>
    ELSE IF 10 * den <= num /\ num < 20 * den THEN <<"C","o","o","l">>
    ELSE IF 20 * den <= num /\ num < 30 * den THEN <<"W","a","r","m">>
    ELSE <<"H","o","t">>

\* f"{num / den:.1f}" as a number of tenths: round to nearest, ties to even
\* (with fewer than 20 values a tie is x.25 or x.75, exact in binary)
RoundTenths(num, den) ==
    LET q == (10 * num) \div den
        r == (10 * num) % den
    IN  IF 2 * r < den THEN q
        ELSE IF 2 * r > den THEN q + 1
        ELSE IF q % 2 = 0 THEN q ELSE q + 1

RECURSIVE ValidTemperatures(_)
\* weather_tools.py:110-115 over the list
ValidTemperatures(forecasts) ==
    IF forecasts = <<>> THEN <<>>
    ELSE LET temp == ParseFloat(Replace(Head(forecasts).temperature, DEGREES_C))
         IN  (IF temp.ok THEN <<temp.val>> ELSE <<>>)
                 \o ValidTemperatures(Tail(forecasts))

RECURSIVE ValidPrecipitations(_)
\* weather_tools.py:119-124 over the list
ValidPrecipitations(forecasts) ==
    IF forecasts = <<>> THEN <<>>
    ELSE LET precip == ParseFloat(Head(forecasts).precipitationProbability)
         IN  (IF precip.ok THEN <<precip.val>> ELSE <<>>)
                 \o ValidPrecipitations(Tail(forecasts))

NoDataLine ==
    [line |-> "No forecast data available for the specified date."]

TEMPERATURE_SENTENCE ==
    "It will be {classification} with temperatures ranging from {min}°C to {max}°C (average {avg:.1f}°C)."

HOURLY_LINE ==
    "{bullet} {time}: {temperature} with {condition}, {precipitationProbability}% chance of rain"

\* weather_tools.py:128-140; the three branches build the same sentence
TemperatureLines(temperatures) ==
    IF temperatures = <<>> THEN <<>>
    ELSE <<[line |-> TEMPERATURE_SENTENCE,
            classification |-> Lower(classify_temperature(SumSeq(temperatures),
                                                          Len(temperatures))),
            min |-> MinSeq(temperatures),
            max |-> MaxSeq(temperatures),
            avg_tenths |-> RoundTenths(SumSeq(temperatures), Len(temperatures))]>>

\* weather_tools.py:146-153
PrecipitationSentence(max_precip) ==
    IF max_precip > 70
    THEN "Yes, it will likely rain with high probability of precipitation."
    ELSE IF max_precip > 40 THEN "There's a moderate chance of rain."
    ELSE IF max_precip > 20 THEN "There's a slight chance of rain."
    ELSE "It's unlikely to rain."

\* PrecipitationLines choosing the sentence by avg_precip
PrecipitationLinesByAverage(precipitation_probs) ==
    IF precipitation_probs = <<>> THEN <<>>
    ELSE <<[line |-> PrecipitationSentence(
                         SumSeq(precipitation_probs) \div Len(precipitation_probs))]>>

\* weather_tools.py:142-153
PrecipitationLines(precipitation_probs) ==
    IF precipitation_probs = <<>> THEN <<>>
    ELSE <<[line |-> PrecipitationSentence(MaxSeq(precipitation_probs))]>>

\* weather_tools.py:155
rain_conditions == {<<"r","a","i","n">>, <<"d","r","i","z","z","l","e">>,
                    <<"t","h","u","n","d","e","r","s","t","o","r","m">>,
                    <<"s","n","o","w">>}

\* weather_tools.py:155-159
WetLines(forecasts) ==
    IF \E i \in 1..Len(forecasts) : \E rain_word \in rain_conditions :
           Contains(Lower(forecasts[i].condition), rain_word)
    THEN <<[line |-> "Expect wet weather conditions."]>>
    ELSE <<>>

\* weather_tools.py:161-163 ({bullet} stands for the character U+2022)
HourlyLines(forecasts) ==
    <<[line |-> "\nHourly breakdown:"]>>
        \o [i \in 1..Len(forecasts) |->
               [line |-> HOURLY_LINE,
                time |-> forecasts[i].time,
                temperature |-> forecasts[i].temperature,
                condition |-> forecasts[i].condition,
                precipitationProbability |-> forecasts[i].precipitationProbability]]

\* weather_tools.py:101-165: the lines that "\n".join(summary) joins
summarize_forecast(forecasts) ==
    IF forecasts = <<>> THEN <<NoDataLine>>
    ELSE TemperatureLines(ValidTemperatures(forecasts))
             \o PrecipitationLines(ValidPrecipitations(forecasts))
             \o WetLines(forecasts)
             \o HourlyLines(forecasts)

-----------------------------------------------------------------------------
(* Inputs of the summary: the hourly records the provider returns *)

\* "YYYY-MM-DDThh:00:00Z" of the day with ordinal n
TimeStamp(n, hh) ==
    IsoFormat(n) \o <<"T">> \o ZeroPad(StrOfNat(hh), 2)
        \o <<":","0","0",":","0","0","Z">>

HourlyRecord(n, hh, temperature, weatherCode, precipitationProbability) ==
    [time |-> TimeStamp(n, hh), temperature |-> temperature,
     weatherCode |-> weatherCode,
     precipitationProbability |-> precipitationProbability]

\* records of the day before and the day after: hotter, colder and wetter
\* than any record of the day itself
OffDateSamples(today) ==
    {HourlyRecord(today - 1, 23, JsonNumber(40), JsonNumber(4001), JsonNumber(90)),
     HourlyRecord(today + 1, 0, JsonNumber(0 - 10), JsonNumber(5000), JsonNumber(100))}

\* records of the day: temperatures and probabilities on and around the
\* thresholds, a null temperature, a null probability, an unknown code
OnDateSamples(today) ==
    {HourlyRecord(today, 0, JsonNumber(5), JsonNumber(1000), JsonNumber(10)),
     HourlyRecord(today, 6, JsonNumber(15), JsonNumber(1001), JsonNumber(30)),
     HourlyRecord(today, 9, JsonNumber(25), JsonNumber(4001), JsonNumber(80)),
     HourlyRecord(today, 12, JsonNumber(0 - 3), JsonNumber(5000), JsonNumber(20)),
     HourlyRecord(today, 15, JsonNumber(10), JsonNumber(1100), JsonNumber(21)),
     HourlyRecord(today, 18, JsonNumber(20), JsonAbsent, JsonNumber(40)),
     HourlyRecord(today, 19, JsonNumber(30), JsonNumber(4000), JsonNumber(41)),
     HourlyRecord(today, 20, JsonNull, JsonNumber(8000), JsonNumber(70)),
     HourlyRecord(today, 21, JsonNumber(9), JsonNumber(2000), JsonNull),
     HourlyRecord(today, 23, JsonNumber(35), JsonNumber(9999), JsonNumber(71))}

Samples(today) == OnDateSamples(today) \cup OffDateSamples(today)

\* the records of the two-list comparison and of forecast_weather
PairSamples(today) ==
    OffDateSamples(today)
      \cup {HourlyRecord(today, 0, JsonNumber(5), JsonNumber(1000), JsonNumber(10)),
            HourlyRecord(today, 12, JsonNumber(25), JsonNumber(1001), JsonNumber(30)),
            HourlyRecord(today, 23, JsonNull, JsonNumber(4000), JsonNumber(50))}

\* the lists of at most n elements of S
Lists(S, n) == UNION {[1..k -> S] : k \in 0..n}

\* what get_forecast returns for the decoded response `hourly`
Forecasts(S, n) == {TransformAll(hourly) : hourly \in Lists(S, n)}

-----------------------------------------------------------------------------
(* Lines 217-218 of forecast_weather on one list *)

InitSum ==
    /\ utcnow = FirstRefDay
    /\ period = TODAY
    /\ date = normalize_date(period, utcnow)
    /\ printed = date
    /\ weathers \in Forecasts(Samples(utcnow), MaxRecs)
    /\ pc = "line217"
    /\ filtered = <<>> /\ summary = <<>>
    /\ weathers2 = <<>> /\ filtered2 = <<>> /\ summary2 = <<>>
    /\ ticks = 0

\* weather_tools.py:217
Filter217 ==
    /\ pc = "line217"
    /\ filtered' = filter_forecast_by_date(weathers, date.value)
    /\ pc' = "line218"
    /\ UNCHANGED <<utcnow, period, date, printed, weathers, summary,
                   weathers2, filtered2, summary2, ticks>>

\* weather_tools.py:218-220
Summarize218 ==
    /\ pc = "line218"
    /\ summary' = summarize_forecast(filtered)
    /\ pc' = "returned"
    /\ UNCHANGED <<utcnow, period, date, printed, weathers, filtered,
                   weathers2, filtered2, summary2, ticks>>

NextSum == Filter217 \/ Summarize218

SpecSum == InitSum /\ [][NextSum]_vars

-----------------------------------------------------------------------------
(* Lines 217-218 on two lists and one target date *)

InitPair ==
    /\ utcnow = FirstRefDay
    /\ period = TODAY
    /\ date = normalize_date(period, utcnow)
    /\ printed = date
    /\ weathers \in Forecasts(PairSamples(utcnow), MaxPairRecs)
    /\ weathers2 \in Forecasts(PairSamples(utcnow), MaxPairRecs)
    /\ pc = "line217"
    /\ filtered = <<>> /\ summary = <<>>
    /\ filtered2 = <<>> /\ summary2 = <<>>
    /\ ticks = 0

FilterPair ==
    /\ pc = "line217"
    /\ filtered' = filter_forecast_by_date(weathers, date.value)
    /\ filtered2' = filter_forecast_by_date(weathers2, date.value)
    /\ pc' = "line218"
    /\ UNCHANGED <<utcnow, period, date, printed, weathers, summary,
                   weathers2, summary2, ticks>>

SummarizePair ==
    /\ pc = "line218"
    /\ summary' = summarize_forecast(filtered)
    /\ summary2' = summarize_forecast(filtered2)
    /\ pc' = "returned"
    /\ UNCHANGED <<utcnow, period, date, printed, weathers, filtered,
                   weathers2, filtered2, ticks>>

NextPair == FilterPair \/ SummarizePair

SpecPair == InitPair /\ [][NextPair]_vars

-----------------------------------------------------------------------------
(* forecast_weather, with the UTC clock running *)

ForecastPhrases(today) ==
    {TODAY, TOMORROW, SATURDAY, SUNDAY,
     <<"5"," ","d","a","y","s"," ","t","i","m","e">>,
     <<"n","e","x","t"," ","m","o","n","t","h">>,
     IsoFormat(today + 1)}

Init ==
    /\ utcnow \in RefDays
    /\ period \in ForecastPhrases(utcnow)
    /\ pc = "line214"
    /\ date = NoOutcome
    /\ printed = NoOutcome
    /\ weathers = <<>> /\ filtered = <<>> /\ summary = <<>>
    /\ weathers2 = <<>> /\ filtered2 = <<>> /\ summary2 = <<>>
    /\ ticks = 0

\* weather_tools.py:214; a ValueError of normalize_date ends the call
Normalize214 ==
    /\ pc = "line214"
    /\ date' = normalize_date(period, utcnow)
    /\ pc' = IF date'.kind = "raise" THEN "raised" ELSE "line215"
    /\ UNCHANGED <<utcnow, period, printed, weathers, filtered, summary,
                   weathers2, filtered2, summary2, ticks>>

\* weather_tools.py:215: print(..., date_utils.normalize_date(period))
Print215 ==
    /\ pc = "line215"
    /\ printed' = normalize_date(period, utcnow)
    /\ pc' = IF printed'.kind = "raise" THEN "raised" ELSE "line216"
    /\ UNCHANGED <<utcnow, period, date, weathers, filtered, summary,
                   weathers2, filtered2, summary2, ticks>>

\* weather_tools.py:216, 167-183: the provider answers 200 with hourly records
GetForecast216 ==
    /\ pc = "line216"
    /\ weathers' \in Forecasts(PairSamples(utcnow), MaxPairRecs)
    /\ pc' = "line217"
    /\ UNCHANGED <<utcnow, period, date, printed, filtered, summary,
                   weathers2, filtered2, summary2, ticks>>

\* weather_tools.py:170-171, 184-186: no API key, or another status
GetForecastRaises ==
    /\ pc = "line216"
    /\ pc' = "raised"
    /\ UNCHANGED <<utcnow, period, date, printed, weathers, filtered, summary,
                   weathers2, filtered2, summary2, ticks>>

\* midnight UTC passes while the call is running
Midnight ==
    /\ pc \in {"line214", "line215", "line216", "line217", "line218"}
    /\ ticks < MaxTicks
    /\ utcnow' = utcnow + 1
    /\ ticks' = ticks + 1
    /\ UNCHANGED <<period, pc, date, printed, weathers, filtered, summary,
                   weathers2, filtered2, summary2>>

Next ==
    \/ Normalize214
    \/ Print215
    \/ GetForecast216
    \/ GetForecastRaises
    \/ Filter217
    \/ Summarize218
    \/ Midnight

Spec == Init /\ [][Next]_vars

-----------------------------------------------------------------------------
(* Properties of normalize_date, checked under SpecNorm *)

Returned == pc = "returned"

\* the returned string is the ISO date of a day from today to today + 5
WithinHorizon(outcome, today) ==
    \E k \in 0..5 : outcome.value = IsoFormat(today + k)

\* the phrase reaches the strptime branch and parses there
IsDateLiteral(p) == Strptime(Lower(Strip(p))) # 0

\* C1 as claimed: every successful normalize_date returns a date within
\* [reference date, reference date + 5 days].
C1_AlwaysWithinHorizon ==
    Returned /\ date.kind = "return" => WithinHorizon(date, utcnow)

\* C1 as amended: every successful normalize_date of a phrase that is not an
\* absolute date literal returns a date within [reference date, reference
\* date + 5 days]; an absolute date literal is returned as the date it
\* parses to, whatever its distance from the reference date.
C1_RelativeWithinHorizon ==
    Returned /\ date.kind = "return" =>
        IF IsDateLiteral(period)
        THEN date.value = IsoFormat(Strptime(Lower(Strip(period))))
        ELSE WithinHorizon(date, utcnow)

\* a relative phrase resolved to the last day of the horizon
C1_Witness ==
    /\ Returned /\ date.kind = "return"
    /\ ~IsDateLiteral(period)
    /\ date.value = IsoFormat(utcnow + 5)

\* C2: "<N> day(s) time" returns reference date + N when N <= 5 and fails
\* with the horizon error, returning no date, when N > 5.
C2_DaysTime ==
    Returned =>
        \A n \in 0..MaxN :
            period \in DaysTimeSpelled[n] =>
                IF n <= 5 THEN date = Return(IsoFormat(utcnow + n))
                ELSE date = HorizonError

\* "5 days time" resolved to the reference date + 5
C2_Witness ==
    /\ Returned
    /\ period = <<"5"," ","d","a","y","s"," ","t","i","m","e">>
    /\ date = Return(IsoFormat(utcnow + 5))

\* C3: a weekday name resolves to the reference date plus
\* (target weekday - reference weekday) mod 7 when that offset is at most 5
\* (offset 0 on the reference date's own weekday) and fails with the horizon
\* error when the offset is 6.
C3_Weekday ==
    Returned =>
        \A i \in 1..7 :
            period \in WeekdaySpelled[i] =>
                LET offset == ((i - 1) - Weekday(utcnow)) % 7
                IN  IF offset <= 5 THEN date = Return(IsoFormat(utcnow + offset))
                    ELSE date = HorizonError

\* the phrase names the reference date's own weekday and resolves to it
C3_Witness ==
    /\ Returned
    /\ period = weekdays[Weekday(utcnow) + 1]
    /\ date = Return(IsoFormat(utcnow))

\* two outcomes are the same date or the same kind of error
SameOutcome(a, b) ==
    /\ a.kind = b.kind
    /\ a.kind = "return" => a.value = b.value
    /\ a.kind = "raise" => a.message = b.message

\* C4: phrases that differ only in letter case and surrounding whitespace
\* have the same outcome; a phrase that is empty after trimming, or 'today'
\* with surrounding whitespace, resolves to the reference date.
C4_CaseAndWhitespaceInsensitive ==
    Returned =>
        /\ \A q \in Phrases(utcnow) :
               Lower(Strip(q)) = Lower(Strip(period)) =>
                   SameOutcome(normalize_date(q, utcnow), date)
        /\ Lower(Strip(period)) \in {<<>>, TODAY} =>
               date = Return(IsoFormat(utcnow))

\* the phrase is, trimmed and lower-cased, exactly one of the forms of the
\* specification
IsRecognisedForm(p) ==
    LET text == Lower(Strip(p))
    IN  \/ text \in {<<>>, TODAY, TOMORROW, NEXT_TOMORROW, DAY_AFTER_TOMORROW}
        \/ \E i \in 1..7 : weekdays[i] = text
        \/ ReMatch(text).matched /\ ReMatch(text).last = Len(text)
        \/ /\ Len(text) = 10
           /\ \A i \in {1, 2, 3, 4, 6, 7, 9, 10} : IsDigit(text[i])
           /\ text[5] = "-" /\ text[8] = "-"

\* C5: a phrase that is not exactly one of the recognised forms fails with
\* the unsupported-format error carrying the original phrase.
C5_UnrecognisedIsUnsupported ==
    Returned /\ ~IsRecognisedForm(period) => date = UnsupportedError(period)

\* C6: "a day time", "two days time", ... "five days time" resolve to the
\* current date + 1, + 2, ... + 5 days.
C6_NumberWords ==
    Returned =>
        \A k \in 1..5 :
            period = NumberWordPhrase(k) => date = Return(IsoFormat(utcnow + k))

-----------------------------------------------------------------------------
(* Properties of the summary *)

Summarized == pc = "returned"

\* the decimal numerals of the numbers a record can carry
NumberStrings == [n \in (0 - 20)..110 |-> StrOfInt(n)]

\* the number a string is the numeral of, as a list of one, or the empty list
NumeralValue(s) ==
    IF \E n \in DOMAIN NumberStrings : NumberStrings[n] = s
    THEN <<CHOOSE n \in DOMAIN NumberStrings : NumberStrings[n] = s>>
    ELSE <<>>

\* the number of a temperature string "<numeral>°C"
TemperatureValue(s) ==
    IF Len(s) > 2 /\ SubSeq(s, Len(s) - 1, Len(s)) = DEGREES_C
    THEN NumeralValue(SubSeq(s, 1, Len(s) - 2))
    ELSE <<>>

RECURSIVE TemperaturesOf(_)
\* the valid temperatures of a list of records, in order
TemperaturesOf(forecasts) ==
    IF forecasts = <<>> THEN <<>>
    ELSE TemperatureValue(Head(forecasts).temperature) \o TemperaturesOf(Tail(forecasts))

RECURSIVE ProbabilitiesOf(_)
\* the valid precipitation probabilities of a list of records, in order
ProbabilitiesOf(forecasts) ==
    IF forecasts = <<>> THEN <<>>
    ELSE NumeralValue(Head(forecasts).precipitationProbability)
             \o ProbabilitiesOf(Tail(forecasts))

\* the record's time string begins with the target date's YYYY-MM-DD
OnTargetDate(r) == Len(r.time) >= 10 /\ SubSeq(r.time, 1, 10) = date.value

\* the lines of the hourly breakdown
HourlyOf(lines) == SelectSeq(lines, LAMBDA l : l.line = HOURLY_LINE)

\* C7: the summary depends only on the records whose time begins with the
\* target date: two lists with the same sub-list of target-date records have
\* the same summary, the hourly breakdown lists exactly the target-date
\* records, and with no target-date record the summary is the one sentence
\* "No forecast data available for the specified date."
C7_OnlyTargetDateRecords ==
    Summarized =>
        /\ SelectSeq(weathers, OnTargetDate) = SelectSeq(weathers2, OnTargetDate)
               => summary = summary2
        /\ LET on == SelectSeq(weathers, OnTargetDate)
               hourly == HourlyOf(summary)
           IN  IF on = <<>> THEN summary = <<NoDataLine>>
               ELSE /\ Len(hourly) = Len(on)
                    /\ \A i \in 1..Len(on) :
                           /\ hourly[i].time = on[i].time
                           /\ hourly[i].temperature = on[i].temperature

\* two different lists share their target-date records, one of them holding
\* records of the adjacent days, and both are summarised
C7_Witness ==
    /\ Summarized
    /\ weathers # weathers2
    /\ SelectSeq(weathers, OnTargetDate) = SelectSeq(weathers2, OnTargetDate)
    /\ Len(SelectSeq(weathers, OnTargetDate)) = 1
    /\ Len(weathers) = 2

LIKELY   == "Yes, it will likely rain with high probability of precipitation."
MODERATE == "There's a moderate chance of rain."
SLIGHT   == "There's a slight chance of rain."
UNLIKELY == "It's unlikely to rain."

\* C8: with at least one valid precipitation probability among the filtered
\* records, exactly one of the four precipitation sentences is emitted, the
\* one the maximum M selects: M > 70 likely, 40 < M <= 70 moderate,
\* 20 < M <= 40 slight, M <= 20 unlikely.
C8_PrecipitationByMaximum ==
    Summarized =>
        LET probs == ProbabilitiesOf(filtered)
            said  == SelectSeq(summary,
                               LAMBDA l : l.line \in {LIKELY, MODERATE, SLIGHT, UNLIKELY})
        IN  probs # <<>> =>
                LET M == CHOOSE m \in {probs[i] : i \in 1..Len(probs)} :
                             \A i \in 1..Len(probs) : probs[i] <= m
                IN  /\ Len(said) = 1
                    /\ M > 70 => said[1].line = LIKELY
                    /\ 40 < M /\ M <= 70 => said[1].line = MODERATE
                    /\ 20 < M /\ M <= 40 => said[1].line = SLIGHT
                    /\ M <= 20 => said[1].line = UNLIKELY

\* probabilities 10, 30, 80: the likely-rain sentence
C8_Witness ==
    /\ Summarized
    /\ ProbabilitiesOf(filtered) = <<10, 30, 80>>
    /\ \E i \in 1..Len(summary) : summary[i].line = LIKELY

\* the class of the mean sum / n by the thresholds of the specification
ClassOfMean(sum, n) ==
    IF sum < 0 THEN <<"f","r","e","e","z","i","n","g">>
    ELSE IF sum < 10 * n THEN <<"c","o","l","d">>
    ELSE IF sum < 20 * n THEN <<"c","o","o","l">>
    ELSE IF sum < 30 * n THEN <<"w","a","r","m">>
    ELSE <<"h","o","t">>

\* C9: with at least one valid temperature among the filtered records, the
\* temperature sentence names the class of the arithmetic mean (< 0 freezing,
\* [0, 10) cold, [10, 20) cool, [20, 30) warm, >= 30 hot), the minimum and
\* the maximum of those temperatures, and the mean to one decimal place.
C9_TemperatureByMean ==
    Summarized =>
        LET temps == TemperaturesOf(filtered)
            said  == SelectSeq(summary, LAMBDA l : l.line = TEMPERATURE_SENTENCE)
            n     == Len(temps)
            sum   == SumSeq(temps)
        IN  temps # <<>> =>
                /\ Len(said) = 1
                /\ said[1].classification = ClassOfMean(sum, n)
                /\ \E i \in 1..n : said[1].min = temps[i]
                /\ \E i \in 1..n : said[1].max = temps[i]
                /\ \A i \in 1..n : said[1].min <= temps[i] /\ temps[i] <= said[1].max
                /\ 2 * (10 * sum - said[1].avg_tenths * n) <= n
                /\ 2 * (said[1].avg_tenths * n - 10 * sum) <= n

\* temperatures 5, 15, 25: class cool, minimum 5, maximum 25, mean 15.0
C9_Witness ==
    /\ Summarized
    /\ TemperaturesOf(filtered) = <<5, 15, 25>>
    /\ summary[1] = [line |-> TEMPERATURE_SENTENCE,
                     classification |-> <<"c","o","o","l">>,
                     min |-> 5, max |-> 25, avg_tenths |-> 150]

-----------------------------------------------------------------------------
(* Property of forecast_weather, checked under Spec *)

\* C10: the date printed in the "Fetching forecast for ... on ..." line is
\* the date the records are filtered by, also when midnight UTC passes
\* between the steps of the call.
C10_PrintedDateIsFilterDate ==
    printed.kind = "return" => printed.value = date.value

=============================================================================
